---- MODULE Spec2Model ----
(***************************************************************************)
(* Model of schema_generator.py: the SchemaGenerator class (its dispatch   *)
(* table and its three shape routines), the module-level construction of   *)
(* `generator`, and the /api/generate handler.                             *)
(*                                                                         *)
(* Two specifications:                                                     *)
(*   Spec       the program: the module is imported (the class statement,  *)
(*              then generator = SchemaGenerator()), and clients POST to   *)
(*              /api/generate once start-up has ended.                     *)
(*   ShapeSpec  the three shape routines of the class, applied directly to *)
(*              records (they never read self).                            *)
(***************************************************************************)
EXTENDS Integers, Sequences, FiniteSets, TLC

(***************************************************************************)
(* Bounds and input sets.                                                  *)
(***************************************************************************)
\* A request record holds at most MaxKeys keys.
MaxKeys == 2

\* The keys the three shape routines read.
OrganizationKeys ==
    {"name", "url", "logo", "description", "street", "city", "state", "zip",
     "country", "phone"}

ProductKeys == {"name", "description", "image", "brand", "price", "currency"}

ArticleKeys == {"title", "description", "author", "date", "image", "publisher"}

\* Keys no routine reads; they are named like keys of the output documents.
OtherKeys == {"availability", "contactType", "headline", "@type"}

Keys == OrganizationKeys \cup ProductKeys \cup ArticleKeys \cup OtherKeys

\* Field values: the empty string and a non-empty string.
Values == {"", "a"}

\* The type tags a client sends: the six registered ones and an unknown one.
RegisteredTags ==
    {"Organization", "Person", "Product", "Article", "LocalBusiness", "Event"}

ClientTags == RegisteredTags \cup {"NotARealType"}

\* Python's None (the value of data.get('type') when the body has no type).
None == "None"

\* The empty dict {}.
EmptyRecord == [k \in {} |-> ""]

SetKey(rec, k, v) == [x \in DOMAIN rec \cup {k} |-> IF x = k THEN v ELSE rec[x]]

DelKey(rec, k) == [x \in DOMAIN rec \ {k} |-> rec[x]]

\* The records one field edit away from rec (a key set, or a key removed).
Edits(rec) ==
    {SetKey(rec, k, v) : k \in {x \in Keys : x \in DOMAIN rec
                                     \/ Cardinality(DOMAIN rec) < MaxKeys},
                         v \in Values}
    \cup {DelKey(rec, k) : k \in DOMAIN rec}

NextRecords(rec) == {rec} \cup Edits(rec)

(***************************************************************************)
(* State.                                                                  *)
(***************************************************************************)
VARIABLES
    pc,            \* "import" | "init" | "crashed" | "serving"
    idx,           \* in __init__: the dict entry whose value is evaluated next
    schema_types,  \* generator.schema_types: tag -> method name (once assigned)
    error,         \* the exception that ended the import, or "none"
    schema_type,   \* the tag of the latest request / call ("" before any)
    arg,           \* the record passed with it
    form_data,     \* that record object after the call
    schema,        \* the document the shape routine returned
    response       \* the HTTP response: [status, json]

vars ==
    <<pc, idx, schema_types, error, schema_type, arg, form_data, schema, response>>

process == <<pc, idx, schema_types, error>>

NoRequest == ""

NoSchema == EmptyRecord

\* No HTTP response: nothing listens on the port.
NoResponse == [status |-> 0, json |-> EmptyRecord]

(***************************************************************************)
(* class SchemaGenerator.                                                  *)
(***************************************************************************)
\* The generate_* methods the class statement defines.
DefinedMethods == {"generate_organization", "generate_product", "generate_article"}

\* The entries of the dict display in __init__, in evaluation order.
SchemaTypeEntries ==
    << <<"Organization", "generate_organization">>,
       <<"Person", "generate_person">>,
       <<"Product", "generate_product">>,
       <<"Article", "generate_article">>,
       <<"LocalBusiness", "generate_local_business">>,
       <<"Event", "generate_event">> >>

\* dict.get(key, default) with a bug: `data.get(key)`, the default dropped.
get_none(data, key, default) == IF key \in DOMAIN data THEN data[key] ELSE None

\* dict.get(key, default) with a bug: `data.get(key) or default`.
get_falsy(data, key, default) ==
    IF key \in DOMAIN data /\ data[key] # "" THEN data[key] ELSE default

\* dict.get(key, default): the value.
get(data, key, default) == IF key \in DOMAIN data THEN data[key] ELSE default

\* dict.setdefault(key, default): its effect on the dict.
setdefault_effect(data, key, default) ==
    IF key \in DOMAIN data THEN data ELSE SetKey(data, key, default)

\* dict.get(key, default): its effect on the dict (none).
get_effect(data, key, default) == data

\* The dict after the reads (a sequence of <<key, default>>) of a routine.
RECURSIVE data_after(_, _)
data_after(data, reads) ==
    IF reads = <<>> THEN data
    ELSE data_after(get_effect(data, Head(reads)[1], Head(reads)[2]), Tail(reads))

generate_organization(data) ==
    ("@context" :> "https://schema.org") @@
    ("@type" :> "Organization") @@
    ("name" :> get(data, "name", "")) @@
    ("url" :> get(data, "url", "")) @@
    ("logo" :> get(data, "logo", "")) @@
    ("description" :> get(data, "description", "")) @@
    ("address" :>
        (("@type" :> "PostalAddress") @@
         ("streetAddress" :> get(data, "street", "")) @@
         ("addressLocality" :> get(data, "city", "")) @@
         ("addressRegion" :> get(data, "state", "")) @@
         ("postalCode" :> get(data, "zip", "")) @@
         ("addressCountry" :> get(data, "country", "")))) @@
    ("contactPoint" :>
        (("@type" :> "ContactPoint") @@
         ("telephone" :> get(data, "phone", "")) @@
         ("contactType" :> "customer service")))

reads_organization ==
    << <<"name", "">>, <<"url", "">>, <<"logo", "">>, <<"description", "">>,
       <<"street", "">>, <<"city", "">>, <<"state", "">>, <<"zip", "">>,
       <<"country", "">>, <<"phone", "">> >>

\* generate_product with a bug: the record spread into the document
\* ({**data, ...}), so its other keys come through.
generate_product_spread(data) ==
    (("@context" :> "https://schema.org") @@
     ("@type" :> "Product") @@
     ("name" :> get(data, "name", "")) @@
     ("description" :> get(data, "description", "")) @@
     ("image" :> get(data, "image", "")) @@
     ("brand" :> (("@type" :> "Brand") @@ ("name" :> get(data, "brand", "")))) @@
     ("offers" :>
        (("@type" :> "Offer") @@
         ("price" :> get(data, "price", "")) @@
         ("priceCurrency" :> get(data, "currency", "USD")) @@
         ("availability" :> "https://schema.org/InStock"))))
    @@ data

generate_product(data) ==
    ("@context" :> "https://schema.org") @@
    ("@type" :> "Product") @@
    ("name" :> get(data, "name", "")) @@
    ("description" :> get(data, "description", "")) @@
    ("image" :> get(data, "image", "")) @@
    ("brand" :> (("@type" :> "Brand") @@ ("name" :> get(data, "brand", "")))) @@
    ("offers" :>
        (("@type" :> "Offer") @@
         ("price" :> get(data, "price", "")) @@
         ("priceCurrency" :> get(data, "currency", "USD")) @@
         ("availability" :> "https://schema.org/InStock")))

reads_product ==
    << <<"name", "">>, <<"description", "">>, <<"image", "">>, <<"brand", "">>,
       <<"price", "">>, <<"currency", "USD">> >>

\* generate_article with a bug: the headline read from the key 'headline'.
generate_article_headline(data) ==
    ("@context" :> "https://schema.org") @@
    ("@type" :> "Article") @@
    ("headline" :> get(data, "headline", "")) @@
    ("description" :> get(data, "description", "")) @@
    ("author" :> (("@type" :> "Person") @@ ("name" :> get(data, "author", "")))) @@
    ("datePublished" :> get(data, "date", "")) @@
    ("image" :> get(data, "image", "")) @@
    ("publisher" :>
        (("@type" :> "Organization") @@ ("name" :> get(data, "publisher", ""))))

generate_article(data) ==
    ("@context" :> "https://schema.org") @@
    ("@type" :> "Article") @@
    ("headline" :> get(data, "title", "")) @@
    ("description" :> get(data, "description", "")) @@
    ("author" :> (("@type" :> "Person") @@ ("name" :> get(data, "author", "")))) @@
    ("datePublished" :> get(data, "date", "")) @@
    ("image" :> get(data, "image", "")) @@
    ("publisher" :>
        (("@type" :> "Organization") @@ ("name" :> get(data, "publisher", ""))))

reads_article ==
    << <<"title", "">>, <<"description", "">>, <<"author", "">>, <<"date", "">>,
       <<"image", "">>, <<"publisher", "">> >>

\* Calling the bound method a dispatch-table entry holds.
CallMethod(method, data) ==
    CASE method = "generate_organization" -> generate_organization(data)
      [] method = "generate_product" -> generate_product(data)
      [] method = "generate_article" -> generate_article(data)

(***************************************************************************)
(* The module's top level: generator = SchemaGenerator().                  *)
(***************************************************************************)
Init ==
    /\ pc = "import"
    /\ idx = 0
    /\ schema_types = EmptyRecord
    /\ error = "none"
    /\ schema_type = NoRequest
    /\ arg = EmptyRecord
    /\ form_data = EmptyRecord
    /\ schema = NoSchema
    /\ response = NoResponse

\* Line 83 calls the constructor; __init__ starts on the dict display.
Construct ==
    /\ pc = "import"
    /\ pc' = "init"
    /\ idx' = 1
    /\ UNCHANGED <<schema_types, error, schema_type, arg, form_data, schema, response>>

\* __init__ evaluates the next entry's value, self.<method>: an attribute the
\* class does not define raises AttributeError, which leaves __init__ and the
\* module's top level; after the last entry the dict is assigned and the
\* import goes on to register the routes and serve.
InitEntry ==
    /\ pc = "init"
    /\ IF SchemaTypeEntries[idx][2] \notin DefinedMethods
       THEN /\ pc' = "crashed"
            /\ error' = "AttributeError"
            /\ UNCHANGED <<idx, schema_types>>
       ELSE IF idx < Len(SchemaTypeEntries)
       THEN /\ idx' = idx + 1
            /\ UNCHANGED <<pc, error, schema_types>>
       ELSE /\ schema_types' =
                  [t \in {SchemaTypeEntries[i][1] : i \in 1..Len(SchemaTypeEntries)} |->
                      LET i == CHOOSE j \in 1..Len(SchemaTypeEntries) :
                                   SchemaTypeEntries[j][1] = t
                      IN SchemaTypeEntries[i][2]]
            /\ pc' = "serving"
            /\ UNCHANGED <<idx, error>>
    /\ UNCHANGED <<schema_type, arg, form_data, schema, response>>

(***************************************************************************)
(* POST /api/generate.                                                     *)
(***************************************************************************)
\* The handler: the locals schema_type and form_data, the membership test,
\* the dispatch, and the two return statements.
generate_schema(body) ==
    LET st == get(body, "type", None)
        fd == get(body, "data", EmptyRecord)
    IN IF st \in DOMAIN schema_types
       THEN [status |-> 200, json |-> CallMethod(schema_types[st], fd)]
       ELSE [status |-> 400, json |-> ("error" :> "Invalid schema type")]

\* The JSON bodies a client sends next: with or without a type, with or
\* without a record one edit away from the last one.
RequestBodies ==
    {t @@ d : t \in {EmptyRecord} \cup {("type" :> tag) : tag \in ClientTags},
              d \in {EmptyRecord} \cup {("data" :> rec) : rec \in NextRecords(arg)}}

\* A client POSTs a body once start-up has ended. A serving process runs the
\* handler; a process that died during import listens on no port.
Post ==
    /\ pc \in {"serving", "crashed"}
    /\ \E body \in RequestBodies :
          /\ schema_type' = get(body, "type", None)
          /\ arg' = get(body, "data", EmptyRecord)
          /\ form_data' = get(body, "data", EmptyRecord)
          /\ response' = IF pc = "serving" THEN generate_schema(body) ELSE NoResponse
          /\ schema' = IF response'.status = 200 THEN response'.json ELSE NoSchema
    /\ UNCHANGED process

Next == Construct \/ InitEntry \/ Post

Spec == Init /\ [][Next]_vars

(***************************************************************************)
(* The shape routines applied directly.                                    *)
(***************************************************************************)
CallOrganization ==
    /\ \E rec \in NextRecords(arg) :
          /\ arg' = rec
          /\ schema' = generate_organization(rec)
          /\ form_data' = data_after(rec, reads_organization)
    /\ schema_type' = "Organization"
    /\ UNCHANGED <<process, response>>

CallProduct ==
    /\ \E rec \in NextRecords(arg) :
          /\ arg' = rec
          /\ schema' = generate_product(rec)
          /\ form_data' = data_after(rec, reads_product)
    /\ schema_type' = "Product"
    /\ UNCHANGED <<process, response>>

CallArticle ==
    /\ \E rec \in NextRecords(arg) :
          /\ arg' = rec
          /\ schema' = generate_article(rec)
          /\ form_data' = data_after(rec, reads_article)
    /\ schema_type' = "Article"
    /\ UNCHANGED <<process, response>>

ShapeNext == CallOrganization \/ CallProduct \/ CallArticle

ShapeSpec == Init /\ [][ShapeNext]_vars

(***************************************************************************)
(* What the claims speak of.                                               *)
(***************************************************************************)
ShapedTags == {"Organization", "Product", "Article"}

\* A request has been posted / a routine has been called.
posted == schema_type # NoRequest

called == schema_type \in ShapedTags

\* The keys of a document that hold nested objects.
NestedKeys == {"address", "contactPoint", "brand", "offers", "author", "publisher"}

LeafPaths(doc) ==
    {<<k>> : k \in DOMAIN doc \ NestedKeys}
    \cup UNION {{<<n, k>> : k \in DOMAIN doc[n]} : n \in NestedKeys \cap DOMAIN doc}

Leaf(doc, p) == IF Len(p) = 1 THEN doc[p[1]] ELSE doc[p[1]][p[2]]

OutputKeys(doc) ==
    DOMAIN doc \cup UNION {DOMAIN doc[n] : n \in NestedKeys \cap DOMAIN doc}

\* The remapping table of the specification: <<tag, output leaf, source key>>.
Remapping ==
    { <<"Organization", <<"name">>, "name">>,
      <<"Organization", <<"url">>, "url">>,
      <<"Organization", <<"logo">>, "logo">>,
      <<"Organization", <<"description">>, "description">>,
      <<"Organization", <<"address", "streetAddress">>, "street">>,
      <<"Organization", <<"address", "addressLocality">>, "city">>,
      <<"Organization", <<"address", "addressRegion">>, "state">>,
      <<"Organization", <<"address", "postalCode">>, "zip">>,
      <<"Organization", <<"address", "addressCountry">>, "country">>,
      <<"Organization", <<"contactPoint", "telephone">>, "phone">>,
      <<"Product", <<"name">>, "name">>,
      <<"Product", <<"description">>, "description">>,
      <<"Product", <<"image">>, "image">>,
      <<"Product", <<"brand", "name">>, "brand">>,
      <<"Product", <<"offers", "price">>, "price">>,
      <<"Product", <<"offers", "priceCurrency">>, "currency">>,
      <<"Article", <<"headline">>, "title">>,
      <<"Article", <<"description">>, "description">>,
      <<"Article", <<"author", "name">>, "author">>,
      <<"Article", <<"datePublished">>, "date">>,
      <<"Article", <<"image">>, "image">>,
      <<"Article", <<"publisher", "name">>, "publisher">> }

\* The leaves the specification fixes: <<tag, output leaf, literal>>.
FixedLeaves ==
    { <<"Organization", <<"@context">>, "https://schema.org">>,
      <<"Organization", <<"@type">>, "Organization">>,
      <<"Organization", <<"address", "@type">>, "PostalAddress">>,
      <<"Organization", <<"contactPoint", "@type">>, "ContactPoint">>,
      <<"Organization", <<"contactPoint", "contactType">>, "customer service">>,
      <<"Product", <<"@context">>, "https://schema.org">>,
      <<"Product", <<"@type">>, "Product">>,
      <<"Product", <<"brand", "@type">>, "Brand">>,
      <<"Product", <<"offers", "@type">>, "Offer">>,
      <<"Product", <<"offers", "availability">>, "https://schema.org/InStock">>,
      <<"Article", <<"@context">>, "https://schema.org">>,
      <<"Article", <<"@type">>, "Article">>,
      <<"Article", <<"author", "@type">>, "Person">>,
      <<"Article", <<"publisher", "@type">>, "Organization">> }

\* The leaf paths of a tag's shape.
ShapePaths(tag) == {m[2] : m \in {x \in Remapping \cup FixedLeaves : x[1] = tag}}

\* The keys a tag's routine reads.
SourceKeys(tag) ==
    CASE tag = "Organization" -> OrganizationKeys
      [] tag = "Product" -> ProductKeys
      [] tag = "Article" -> ArticleKeys

Agree(r1, r2, S) ==
    \A k \in S : /\ (k \in DOMAIN r1) <=> (k \in DOMAIN r2)
                 /\ k \in DOMAIN r1 => r1[k] = r2[k]

(***************************************************************************)
(* C10 (Spec). Constructing the SchemaGenerator completes without error,   *)
(* every registered tag being bound to a routine the class defines: the    *)
(* import never dies in __init__.                                          *)
(***************************************************************************)
C10_InitWellFormed == pc # "crashed"

(***************************************************************************)
(* C1 (Spec). Every request for Organization, Product or Article, whatever *)
(* its record, is answered with a document whose root has                  *)
(* "@context" = "https://schema.org" and "@type" = the requested tag.      *)
(***************************************************************************)
C1_BuildReturnsDocument ==
    (posted /\ schema_type \in ShapedTags) =>
        /\ response.status = 200
        /\ schema["@context"] = "https://schema.org"
        /\ schema["@type"] = schema_type

(***************************************************************************)
(* C3 (Spec). Every request whose tag is not a known tag (or that has no   *)
(* type) is answered 400 with {"error": "Invalid schema type"} and gets no *)
(* document.                                                               *)
(***************************************************************************)
C3_UnknownTagRejected ==
    (posted /\ schema_type \notin RegisteredTags) =>
        /\ response.status = 400
        /\ response.json = ("error" :> "Invalid schema type")
        /\ schema = NoSchema

(***************************************************************************)
(* C8 (Spec). UnknownTypeKind (the 400 answer) is the only failure and is  *)
(* given exactly when the tag is outside the six declared tags: a request  *)
(* ends answered, with 400 iff its tag is not declared.                    *)
(***************************************************************************)
C8_OnlyUnknownTypeKind ==
    posted =>
        /\ response.status \in {200, 400}
        /\ (response.status = 400) <=> (schema_type \notin RegisteredTags)

(***************************************************************************)
(* C2 as stated (ShapeSpec), in its weakest reading: every leaf that is    *)
(* read from the record equals "" when its source key is absent.           *)
(***************************************************************************)
C2_EveryAbsentLeafEmpty ==
    called =>
        \A m \in Remapping :
            (m[1] = schema_type /\ m[3] \notin DOMAIN arg) => Leaf(schema, m[2]) = ""

(***************************************************************************)
(* C2 amended (ShapeSpec). The document is fully shaped for every record,  *)
(* and every leaf read from the record equals "" when its source key is    *)
(* absent, except offers.priceCurrency, which then equals "USD".           *)
(***************************************************************************)
C2_DefaultFill ==
    called =>
        /\ LeafPaths(schema) = ShapePaths(schema_type)
        /\ \A m \in Remapping :
              (m[1] = schema_type /\ m[3] \notin DOMAIN arg) =>
                  Leaf(schema, m[2]) = IF m[3] = "currency" THEN "USD" ELSE ""

\* The empty record has been given to generate_product.
C2_Witness == schema_type = "Product" /\ arg = EmptyRecord /\ schema # NoSchema

(***************************************************************************)
(* C4 (ShapeSpec). For every record: a Product's offers.availability is    *)
(* "https://schema.org/InStock", an Organization's                         *)
(* contactPoint.contactType is "customer service", and a Product's         *)
(* offers.priceCurrency is "USD" when the key currency is absent and the   *)
(* record's currency (the empty string included) when it is present.       *)
(***************************************************************************)
C4_FixedLiterals ==
    /\ schema_type = "Product" =>
          /\ schema["offers"]["availability"] = "https://schema.org/InStock"
          /\ schema["offers"]["priceCurrency"] =
                IF "currency" \in DOMAIN arg THEN arg["currency"] ELSE "USD"
    /\ schema_type = "Organization" =>
          schema["contactPoint"]["contactType"] = "customer service"

\* A Product built from a record with a key availability and an empty currency.
C4_Witness ==
    /\ schema_type = "Product"
    /\ DOMAIN arg = {"availability", "currency"}
    /\ arg["currency"] = ""
    /\ arg["availability"] = "a"

\* The source keys of the remappings C5 lists.
ListedSourceKeys ==
    {"title", "date", "author", "publisher", "street", "city", "state", "zip",
     "country", "phone", "brand", "price", "currency"}

\* The source keys no shape uses as an output key.
RenamedKeys ==
    {"title", "date", "street", "city", "state", "zip", "country", "phone", "currency"}

RemapHolds ==
    \A m \in Remapping :
        (m[1] = schema_type /\ m[3] \in DOMAIN arg) => Leaf(schema, m[2]) = arg[m[3]]

(***************************************************************************)
(* C5 as stated (ShapeSpec). Each output leaf equals the record's value of *)
(* its source key when present, and none of the listed source keys is a    *)
(* key of the output document.                                             *)
(***************************************************************************)
C5_NoSourceKeyInOutput ==
    called => (RemapHolds /\ OutputKeys(schema) \cap ListedSourceKeys = {})

(***************************************************************************)
(* C5 amended (ShapeSpec). Each output leaf equals the record's value of   *)
(* its source key when present, and the source keys title, date, street,   *)
(* city, state, zip, country, phone and currency are never keys of the     *)
(* output document.                                                        *)
(***************************************************************************)
C5_Remapping ==
    called => (RemapHolds /\ OutputKeys(schema) \cap RenamedKeys = {})

\* An Article built from a record with a title and a date.
C5_Witness ==
    /\ schema_type = "Article"
    /\ DOMAIN arg = {"title", "date"}
    /\ arg["title"] = "a"
    /\ schema["headline"] = "a"

C9_IrrelevantKeysIgnored ==
    [][called' =>
         /\ (schema_type' = schema_type
               /\ Agree(arg, arg', SourceKeys(schema_type'))) => schema' = schema
         /\ LeafPaths(schema') = ShapePaths(schema_type')
         /\ DOMAIN schema' \cap NestedKeys = {p[1] : p \in {q \in ShapePaths(schema_type') : Len(q) = 2}}
      ]_vars

\* A Product built from a record with a key the routine does not read.
C9_Witness ==
    /\ schema_type = "Product"
    /\ DOMAIN arg = {"name", "headline"}
    /\ arg["headline"] = "a"
    /\ DOMAIN schema = {"@context", "@type", "name", "description", "image", "brand", "offers"}

====
